---- MODULE Spec2Model ----
(***************************************************************************)
(* SecureHybridTransfer: the framed file-transfer protocol of              *)
(* secure_file_transfer.py (send_file, receive_files, _recv_all) and the   *)
(* signing helpers of base.py (sign_file, verify_signature).               *)
(*                                                                         *)
(* Bytes are integers 0..255.  Names are sequences of code points, paths   *)
(* are sequences of components counted from the filesystem root.  The      *)
(* receiver is one sequential process whose position is rx.pc; every       *)
(* recv() call is one step.  The TLS channel is an ordered byte stream     *)
(* (conn.stream) that recv() may cut into arbitrary non-empty chunks.      *)
(***************************************************************************)
EXTENDS Integers, Sequences, FiniteSets, TLC

VARIABLES
    backlog,   \* connections waiting in the listen queue, oldest first
    conn,      \* the connection the receiver is processing (NoConn when idle)
    rx,        \* receiver: program counter, locals of the loop body, log of the connection
    fs,        \* receiver host filesystem: path -> node
    sfs,       \* sender directory: file name -> node
    snd,       \* outcome of the last send_file call
    nsend,     \* calls of send_file so far
    npeer,     \* connections opened by other peers so far
    verifyOpt  \* receive_files(verify_signature=...)

vars == <<backlog, conn, rx, fs, sfs, snd, nsend, npeer, verifyOpt>>

----------------------------------------------------------------------------
(* Bounds of the model *)

MaxSends == 1      \* calls of send_file in one run
MaxPeers == 1      \* connections other peers open in one run
MaxSize == 2       \* longest file content
MaxBacklog == 1    \* connections queued behind the one being processed
MaxFairConns == 1  \* connections in one run of the specification with fairness

(* Program constants *)

CHUNK == 65536     \* f.read(65536), tls.recv(min(65536, remaining))
FLAG_LEN == 1      \* _recv_all(tls, 1)
LEN32 == 4         \* struct '!I'
LEN64 == 8         \* struct '!Q'

----------------------------------------------------------------------------
(* Helpers on sequences *)

Min(a, b) == IF a < b THEN a ELSE b

Take(s, k) == SubSeq(s, 1, k)

Drop(s, k) == SubSeq(s, k + 1, Len(s))

Reverse(s) == [i \in 1..Len(s) |-> s[Len(s) + 1 - i]]

----------------------------------------------------------------------------
(* struct.pack / struct.unpack, big-endian unsigned *)

RECURSIVE PackBE(_, _)
PackBE(n, width) ==
    IF width = 0 THEN <<>>
    ELSE Append(PackBE(n \div 256, width - 1), n % 256)

RECURSIVE UnpackBE(_)
UnpackBE(bytes) ==
    IF bytes = <<>> THEN 0
    ELSE UnpackBE(Take(bytes, Len(bytes) - 1)) * 256 + bytes[Len(bytes)]

----------------------------------------------------------------------------
(* str.encode('utf-8') and bytes.decode('utf-8', errors='replace'), for    *)
(* code points below U+0800 and the byte values the model draws (no lead   *)
(* byte of a three- or four-byte form).                                    *)

REPLACEMENT == 65533

RECURSIVE EncodeUtf8(_)
EncodeUtf8(str) ==
    IF str = <<>> THEN <<>>
    ELSE LET cp == Head(str)
         IN  (IF cp < 128 THEN <<cp>>
              ELSE <<192 + (cp \div 64), 128 + (cp % 64)>>) \o EncodeUtf8(Tail(str))

IsCont(b) == b >= 128 /\ b <= 191

RECURSIVE DecodeUtf8Replace(_)
DecodeUtf8Replace(bytes) ==
    IF bytes = <<>> THEN <<>>
    ELSE LET b == Head(bytes)
         IN  IF b < 128 THEN <<b>> \o DecodeUtf8Replace(Tail(bytes))
             ELSE IF b >= 194 /\ b <= 223 /\ Len(bytes) >= 2 /\ IsCont(bytes[2])
                  THEN <<(b - 192) * 64 + (bytes[2] - 128)>> \o DecodeUtf8Replace(Drop(bytes, 2))
                  ELSE <<REPLACEMENT>> \o DecodeUtf8Replace(Tail(bytes))

----------------------------------------------------------------------------
(* pathlib and the filesystem of the receiver host *)

SLASH == 47
DOT == 46

OutDir == << <<111>> >>          \* out_dir, the directory "/o"

RECURSIVE SplitSlash(_)
SplitSlash(str) ==
    IF str = <<>> THEN << <<>> >>
    ELSE LET rest == SplitSlash(Tail(str))
         IN  IF Head(str) = SLASH THEN << <<>> >> \o rest
             ELSE << <<Head(str)>> \o rest[1] >> \o Tail(rest)

\* the components pathlib keeps: empty ones and "." are dropped
Parts(str) == SelectSeq(SplitSlash(str), LAMBDA c : c # <<>> /\ c # <<DOT>>)

IsAbsolute(str) == str # <<>> /\ str[1] = SLASH

\* out_dir / name: an absolute right operand replaces the left one
JoinPath(dir, str) == IF IsAbsolute(str) THEN Parts(str) ELSE dir \o Parts(str)

Parent(path) == IF path = <<>> THEN <<>> ELSE Take(path, Len(path) - 1)

DirNode == [k |-> "dir", data |-> <<>>]

FileNode(bytes) == [k |-> "file", data |-> bytes]

Kind(f, path) ==
    IF path = <<>> THEN "dir"
    ELSE IF path \in DOMAIN f THEN f[path].k ELSE "none"

Put(f, path, node) == [p \in DOMAIN f \cup {path} |-> IF p = path THEN node ELSE f[p]]

\* Path.mkdir(parents=True, exist_ok=True)
RECURSIVE MkdirParents(_, _)
MkdirParents(f, path) ==
    IF Kind(f, path) = "dir" THEN [ok |-> TRUE, fs |-> f]
    ELSE IF Kind(f, path) = "file" THEN [ok |-> FALSE, fs |-> f]
    ELSE LET up == MkdirParents(f, Parent(path))
         IN  IF up.ok THEN [ok |-> TRUE, fs |-> Put(up.fs, path, DirNode)]
             ELSE up

\* open(path, 'wb'): creates or truncates; fails on a directory or a missing parent
CanOpenWrite(f, path) == Kind(f, Parent(path)) = "dir" /\ Kind(f, path) # "dir"

\* (variant: an existing file is opened without being truncated)
OpenWriteKeep(f, path) == IF Kind(f, path) = "file" THEN f ELSE Put(f, path, FileNode(<<>>))

\* open(path, 'wb') succeeded: the file exists and is empty
OpenWrite(f, path) == Put(f, path, FileNode(<<>>))

\* (variant: the chunk lands before the bytes already written)
WriteChunkPrepend(f, path, chunk) == Put(f, path, FileNode(chunk \o f[path].data))

\* f.write(chunk) on the file opened at path
WriteChunk(f, path, chunk) == Put(f, path, FileNode(f[path].data \o chunk))

----------------------------------------------------------------------------
(* base.sign_file / base.verify_signature: openssl dgst -sha256 -sign and   *)
(* -verify.  A key pair is a number; a certificate file holds the number of *)
(* its public key, or is missing, or is not a certificate.                  *)

Keys == {1, 2}
NO_KEY == 0          \* key file missing or unusable
SENDER_KEY == 1      \* the key pair in the sender's KEY_FILE
CERT_MISSING == 0
CERT_GARBAGE == 99
CertStates == Keys \cup {CERT_MISSING, CERT_GARBAGE}

RECURSIVE Digest(_)
Digest(bytes) ==
    IF bytes = <<>> THEN 0
    ELSE (Digest(Take(bytes, Len(bytes) - 1)) * 31 + bytes[Len(bytes)] + 1) % 251

SignBytes(bytes, key) == <<key, Digest(bytes)>>

\* base.verify_signature(file_path, cert_file, signature_path): "raise" when the
\* public key cannot be extracted (check_call outside the inner try), "fail" when
\* openssl dgst -verify exits non-zero, "pass" on "Verified OK"
VerifySignature(f, file_path, cert, signature_path) ==
    IF cert \notin Keys THEN "raise"
    ELSE IF Kind(f, file_path) # "file" \/ Kind(f, signature_path) # "file" THEN "fail"
    ELSE IF f[signature_path].data = SignBytes(f[file_path].data, cert) THEN "pass"
    ELSE "fail"

----------------------------------------------------------------------------
(* Connections *)

NoConn ==
    [kind |-> "none", hs |-> FALSE, stream |-> <<>>, eof |-> FALSE, broken |-> FALSE,
     name |-> <<>>, data |-> <<>>, sign |-> FALSE, key |-> NO_KEY]

\* a connection opened by a peer that speaks the protocol byte by byte
PeerConn(hs) == [NoConn EXCEPT !.kind = "peer", !.hs = hs]

\* a connection opened by send_file; name, data, sign and key record the call
SenderConn(hs, stream, name, data, sign, key) ==
    [kind |-> "sender", hs |-> hs, stream |-> stream, eof |-> TRUE, broken |-> FALSE,
     name |-> name, data |-> data, sign |-> sign, key |-> key]

----------------------------------------------------------------------------
(* Sender: send_file *)

SIG_SUFFIX == <<46, 115, 105, 103>>      \* ".sig"

NameE == <<233>>                         \* "e" with acute accent, two bytes in UTF-8
NameZ == <<122>>                         \* "z", an empty file
NameD == <<100>>                         \* "d", a directory
NameM == <<109>>                         \* "m", missing

RECURSIVE Pattern(_)
Pattern(n) == IF n = 0 THEN <<>> ELSE Append(Pattern(n - 1), IF n % 2 = 1 THEN 7 ELSE 9)

SrcInit ==
    (NameE :> FileNode(Pattern(MaxSize))) @@ (NameZ :> FileNode(<<>>)) @@ (NameD :> DirNode)

SrcPaths == {NameE, NameZ, NameD, NameM}

\* file_path.with_suffix(file_path.suffix + ".sig")
SigPathOf(name) == name \o SIG_SUFFIX

\* the chunks f.read(65536) returns until it returns b'', concatenated by sendall
RECURSIVE StreamFile(_)
StreamFile(bytes) ==
    IF bytes = <<>> THEN <<>>
    ELSE Take(bytes, Min(CHUNK, Len(bytes))) \o StreamFile(Drop(bytes, Min(CHUNK, Len(bytes))))

\* one frame: name length, name, size, content
Frame(f, name) ==
    PackBE(Len(EncodeUtf8(name)), LEN32) \o EncodeUtf8(name)
        \o PackBE(Len(f[name].data), LEN64) \o StreamFile(f[name].data)

\* sign_flag = 1 if signature_file else 0
SignFlagOf(signed) == IF signed THEN 1 ELSE 0

\* (variant: the signature frame is written before the main frame)
EnvelopeSigFirst(f, name, signed) ==
    PackBE(SignFlagOf(signed), FLAG_LEN)
        \o (IF signed THEN Frame(f, SigPathOf(name)) ELSE <<>>) \o Frame(f, name)

\* everything send_file writes to the TLS socket
Envelope(f, name, signed) ==
    PackBE(SignFlagOf(signed), FLAG_LEN) \o Frame(f, name)
        \o (IF signed THEN Frame(f, SigPathOf(name)) ELSE <<>>)

\* (variant: the signature file is created but left empty)
SignFileEmpty(f, name, key) == Put(f, SigPathOf(name), FileNode(<<>>))

\* base.sign_file: openssl dgst -sha256 -sign key -out name.sig name
SignFile(f, name, key) == Put(f, SigPathOf(name), FileNode(SignBytes(f[name].data, key)))

CanConnect == Len(backlog) < MaxBacklog

\* (variant: file_path.exists())
IsFileExists(f, path) == Kind(f, path) # "none"

\* file_path.is_file()
IsFile(f, path) == Kind(f, path) = "file"

\* (variant: the exit status of openssl is ignored)
SigningNeverFails(sign, key) == FALSE

\* subprocess.check_call raises when openssl cannot sign
SigningFails(sign, key) == sign /\ key = NO_KEY

\* send_file(host, port, file_path, insecure, sign); key is the state of KEY_FILE,
\* trusted says whether the server certificate verifies against CERT_FILE
SendFile(path, insecure, sign, key, trusted) ==
    /\ nsend < MaxSends
    /\ nsend' = nsend + 1
    /\ UNCHANGED <<conn, rx, fs, npeer, verifyOpt>>
    /\ IF ~IsFile(sfs, path)
       THEN /\ snd' = "FileNotFound"
            /\ UNCHANGED <<backlog, sfs>>
       ELSE IF SigningFails(sign, key)
       THEN /\ snd' = "SigningFailed"
            /\ \E leftover \in BOOLEAN :
                   sfs' = IF leftover THEN Put(sfs, SigPathOf(path), FileNode(<<>>)) ELSE sfs
            /\ UNCHANGED backlog
       ELSE LET f == IF sign THEN SignFile(sfs, path, key) ELSE sfs
                hs == insecure \/ trusted
                wire == IF hs THEN Envelope(f, path, sign) ELSE <<>>
            IN  /\ CanConnect
                /\ sfs' = f
                /\ backlog' = Append(backlog,
                                     SenderConn(hs, wire, path, f[path].data, sign, key))
                /\ snd' = IF hs THEN "ok" ELSE "HandshakeFailed"

----------------------------------------------------------------------------
(* Receiver: receive_files and _recv_all *)

RxIdle ==
    [pc |-> "accept", data |-> <<>>,
     sign_flag |-> -1, name_len |-> -1, filename |-> <<>>, size |-> -1,
     file_path |-> <<>>, remaining |-> -1,
     sig_name_len |-> -1, sig_filename |-> <<>>, sig_size |-> -1, sig_path |-> <<>>,
     savedMain |-> FALSE, savedSig |-> FALSE, vres |-> "none", vcert |-> CERT_MISSING,
     err |-> "none"]

\* the phases that read one header field with _recv_all
HeaderPhases == {"flag", "nameLen", "name", "size", "sigNameLen", "sigName", "sigSize"}

ContentPhases == {"content", "sigContent"}

\* the length argument of the _recv_all call of the phase
Want(r) ==
    CASE r.pc = "flag" -> FLAG_LEN
      [] r.pc = "nameLen" -> LEN32
      [] r.pc = "name" -> r.name_len
      [] r.pc = "size" -> LEN64
      [] r.pc = "sigNameLen" -> LEN32
      [] r.pc = "sigName" -> r.sig_name_len
      [] r.pc = "sigSize" -> LEN64
      [] OTHER -> 0

\* (variant: the exception is not caught and ends receive_files)
RaisedUncaught(r, kind) == [r EXCEPT !.pc = "terminated", !.err = kind, !.data = <<>>]

\* an exception leaves the with block (the frame of _recv_all and its data with
\* it): except Exception logs it, finally closes
Raised(r, kind) == [r EXCEPT !.pc = "close", !.err = kind, !.data = <<>>]

\* (variant: an empty chunk ends the loop as if the content were complete)
InterruptedAsEnd(r) == [r EXCEPT !.remaining = 0]

\* if not chunk: raise ConnectionError(...)
Interrupted(r) == Raised(r, "interrupted")

\* the transport can still fail: the peer has not closed cleanly with nothing in flight
CanFail(c) == ~c.eof \/ c.stream # <<>>

\* (variant: a connection is accepted while another one is being processed)
AcceptAnytime ==
    /\ backlog # <<>>
    /\ conn' = Head(backlog)
    /\ backlog' = Tail(backlog)
    /\ rx' = [RxIdle EXCEPT !.pc = "handshake"]
    /\ UNCHANGED <<fs, sfs, snd, nsend, npeer, verifyOpt>>

\* server_sock.accept()
Accept ==
    /\ rx.pc = "accept"
    /\ backlog # <<>>
    /\ conn' = Head(backlog)
    /\ backlog' = Tail(backlog)
    /\ rx' = [RxIdle EXCEPT !.pc = "handshake"]
    /\ UNCHANGED <<fs, sfs, snd, nsend, npeer, verifyOpt>>

\* (variant: a handshake that fails is waited on for ever)
HandshakeBlocking ==
    /\ rx.pc = "handshake" /\ conn.hs
    /\ rx' = [rx EXCEPT !.pc = "flag"]
    /\ UNCHANGED <<backlog, conn, fs, sfs, snd, nsend, npeer, verifyOpt>>

\* context.wrap_socket(client_sock, server_side=True)
Handshake ==
    /\ rx.pc = "handshake"
    /\ rx' = IF conn.hs THEN [rx EXCEPT !.pc = "flag"] ELSE Raised(rx, "handshake")
    /\ UNCHANGED <<backlog, conn, fs, sfs, snd, nsend, npeer, verifyOpt>>

\* (variant: recv is asked for whatever the stream holds)
RecvAllStepGreedy ==
    /\ rx.pc \in HeaderPhases
    /\ Len(rx.data) < Want(rx)
    /\ \/ /\ conn.stream = <<>> /\ conn.eof
          /\ rx' = Interrupted(rx)
          /\ UNCHANGED conn
       \/ \E k \in 1..Len(conn.stream) :
             /\ rx' = [rx EXCEPT !.data = rx.data \o Take(conn.stream, k)]
             /\ conn' = [conn EXCEPT !.stream = Drop(conn.stream, k)]
    /\ UNCHANGED <<backlog, fs, sfs, snd, nsend, npeer, verifyOpt>>

\* one pass of the loop of _recv_all: chunk = conn.recv(length - len(data)).
\* recv raises (the transport failed), returns b'' (the peer closed), or returns
\* between one byte and the bytes asked for
RecvAllStep ==
    /\ rx.pc \in HeaderPhases
    /\ Len(rx.data) < Want(rx)
    /\ \/ /\ CanFail(conn)
          /\ rx' = Raised(rx, "transport")
          /\ conn' = [conn EXCEPT !.broken = TRUE, !.stream = <<>>]
       \/ /\ conn.stream = <<>> /\ conn.eof
          /\ rx' = Interrupted(rx)
          /\ UNCHANGED conn
       \/ \E k \in 1..Min(Want(rx) - Len(rx.data), Len(conn.stream)) :
             /\ rx' = [rx EXCEPT !.data = rx.data \o Take(conn.stream, k)]
             /\ conn' = [conn EXCEPT !.stream = Drop(conn.stream, k)]
    /\ UNCHANGED <<backlog, fs, sfs, snd, nsend, npeer, verifyOpt>>

\* (sign_flag,) = struct.unpack('!B', _recv_all(tls, 1))
GotFlag ==
    /\ rx.pc = "flag" /\ Len(rx.data) >= Want(rx)
    /\ rx' = [rx EXCEPT !.sign_flag = UnpackBE(rx.data), !.data = <<>>, !.pc = "nameLen"]
    /\ UNCHANGED <<backlog, conn, fs, sfs, snd, nsend, npeer, verifyOpt>>

\* (name_len,) = struct.unpack('!I', _recv_all(tls, 4))
GotNameLen ==
    /\ rx.pc = "nameLen" /\ Len(rx.data) >= Want(rx)
    /\ rx' = [rx EXCEPT !.name_len = UnpackBE(rx.data), !.data = <<>>, !.pc = "name"]
    /\ UNCHANGED <<backlog, conn, fs, sfs, snd, nsend, npeer, verifyOpt>>

\* (variant: the parent directories are created as soon as the name is known)
GotNameMkdir ==
    /\ rx.pc = "name" /\ Len(rx.data) >= Want(rx)
    /\ rx' = [rx EXCEPT !.filename = DecodeUtf8Replace(rx.data), !.data = <<>>, !.pc = "size"]
    /\ fs' = MkdirParents(fs, Parent(JoinPath(OutDir, DecodeUtf8Replace(rx.data)))).fs
    /\ UNCHANGED <<backlog, conn, sfs, snd, nsend, npeer, verifyOpt>>

\* filename = _recv_all(tls, name_len).decode('utf-8', errors='replace')
GotName ==
    /\ rx.pc = "name" /\ Len(rx.data) >= Want(rx)
    /\ rx' = [rx EXCEPT !.filename = DecodeUtf8Replace(rx.data), !.data = <<>>, !.pc = "size"]
    /\ UNCHANGED <<backlog, conn, fs, sfs, snd, nsend, npeer, verifyOpt>>

\* the main file is opened: out_dir / filename, parent.mkdir, open(file_path, 'wb')
OpenedMain(r, f, bytes) ==
    LET sz == UnpackBE(bytes)
        path == JoinPath(OutDir, r.filename)
        made == MkdirParents(f, Parent(path))
        r1 == [r EXCEPT !.size = sz, !.file_path = path, !.data = <<>>]
        r2 == [r1 EXCEPT !.remaining = sz]
    IN  IF ~made.ok THEN [rx |-> Raised(r1, "io"), fs |-> made.fs]
        ELSE IF ~CanOpenWrite(made.fs, path) THEN [rx |-> Raised(r2, "io"), fs |-> made.fs]
        ELSE [rx |-> [r2 EXCEPT !.pc = "content"], fs |-> OpenWrite(made.fs, path)]

\* (size,) = struct.unpack('!Q', _recv_all(tls, 8)), then lines 126 to 129
GotSize ==
    /\ rx.pc = "size" /\ Len(rx.data) >= Want(rx)
    /\ rx' = OpenedMain(rx, fs, rx.data).rx
    /\ fs' = OpenedMain(rx, fs, rx.data).fs
    /\ UNCHANGED <<backlog, conn, sfs, snd, nsend, npeer, verifyOpt>>

\* what one pass of a content loop does with the chunk of k bytes it received
ContentWritten(r, f, path, chunk) ==
    [rx |-> [r EXCEPT !.remaining = r.remaining - Len(chunk)],
     fs |-> WriteChunk(f, path, chunk)]

\* (variant: every read asks for a full buffer)
ContentRequestFull(r) == CHUNK

\* the byte count a content loop asks recv for
ContentRequest(r) == Min(CHUNK, r.remaining)

\* one pass of the main content loop: chunk = tls.recv(min(65536, remaining))
ContentStep ==
    /\ rx.pc = "content" /\ rx.remaining > 0
    /\ \/ /\ CanFail(conn)
          /\ rx' = Raised(rx, "transport")
          /\ conn' = [conn EXCEPT !.broken = TRUE, !.stream = <<>>]
          /\ UNCHANGED fs
       \/ /\ conn.stream = <<>> /\ conn.eof
          /\ rx' = Interrupted(rx)
          /\ UNCHANGED <<conn, fs>>
       \/ \E k \in 1..Min(ContentRequest(rx), Len(conn.stream)) :
             /\ rx' = ContentWritten(rx, fs, rx.file_path, Take(conn.stream, k)).rx
             /\ fs' = ContentWritten(rx, fs, rx.file_path, Take(conn.stream, k)).fs
             /\ conn' = [conn EXCEPT !.stream = Drop(conn.stream, k)]
    /\ UNCHANGED <<backlog, sfs, snd, nsend, npeer, verifyOpt>>

\* (variant: a signature frame is read whatever the flag)
AfterMainAlways(r) == "sigNameLen"

\* the phase after the main file was saved: if sign_flag
AfterMain(r) == IF r.sign_flag # 0 THEN "sigNameLen" ELSE "close"

\* the main loop ends: the file is closed, "saved" is printed
ContentDone ==
    /\ rx.pc = "content" /\ rx.remaining <= 0
    /\ rx' = [rx EXCEPT !.savedMain = TRUE, !.pc = AfterMain(rx)]
    /\ UNCHANGED <<backlog, conn, fs, sfs, snd, nsend, npeer, verifyOpt>>

\* (sig_name_len,) = struct.unpack('!I', _recv_all(tls, 4))
GotSigNameLen ==
    /\ rx.pc = "sigNameLen" /\ Len(rx.data) >= Want(rx)
    /\ rx' = [rx EXCEPT !.sig_name_len = UnpackBE(rx.data), !.data = <<>>, !.pc = "sigName"]
    /\ UNCHANGED <<backlog, conn, fs, sfs, snd, nsend, npeer, verifyOpt>>

\* sig_filename = _recv_all(tls, sig_name_len).decode('utf-8', errors='replace')
GotSigName ==
    /\ rx.pc = "sigName" /\ Len(rx.data) >= Want(rx)
    /\ rx' = [rx EXCEPT !.sig_filename = DecodeUtf8Replace(rx.data), !.data = <<>>,
                        !.pc = "sigSize"]
    /\ UNCHANGED <<backlog, conn, fs, sfs, snd, nsend, npeer, verifyOpt>>

\* the signature file is opened: out_dir / sig_filename, open(sig_path, 'wb'), no mkdir
OpenedSig(r, f, bytes) ==
    LET sz == UnpackBE(bytes)
        path == JoinPath(OutDir, r.sig_filename)
        r1 == [r EXCEPT !.sig_size = sz, !.sig_path = path, !.remaining = sz, !.data = <<>>]
    IN  IF CanOpenWrite(f, path)
        THEN [rx |-> [r1 EXCEPT !.pc = "sigContent"], fs |-> OpenWrite(f, path)]
        ELSE [rx |-> Raised(r1, "io"), fs |-> f]

\* (sig_size,) = struct.unpack('!Q', _recv_all(tls, 8)), then lines 145 to 147
GotSigSize ==
    /\ rx.pc = "sigSize" /\ Len(rx.data) >= Want(rx)
    /\ rx' = OpenedSig(rx, fs, rx.data).rx
    /\ fs' = OpenedSig(rx, fs, rx.data).fs
    /\ UNCHANGED <<backlog, conn, sfs, snd, nsend, npeer, verifyOpt>>

\* one pass of the signature content loop
SigContentStep ==
    /\ rx.pc = "sigContent" /\ rx.remaining > 0
    /\ \/ /\ CanFail(conn)
          /\ rx' = Raised(rx, "transport")
          /\ conn' = [conn EXCEPT !.broken = TRUE, !.stream = <<>>]
          /\ UNCHANGED fs
       \/ /\ conn.stream = <<>> /\ conn.eof
          /\ rx' = Interrupted(rx)
          /\ UNCHANGED <<conn, fs>>
       \/ \E k \in 1..Min(ContentRequest(rx), Len(conn.stream)) :
             /\ rx' = ContentWritten(rx, fs, rx.sig_path, Take(conn.stream, k)).rx
             /\ fs' = ContentWritten(rx, fs, rx.sig_path, Take(conn.stream, k)).fs
             /\ conn' = [conn EXCEPT !.stream = Drop(conn.stream, k)]
    /\ UNCHANGED <<backlog, sfs, snd, nsend, npeer, verifyOpt>>

\* (variant: verification runs whether or not it was requested)
AfterSigAlways(requested) == "verify"

\* the phase after the signature file was saved: if verify_signature
AfterSig(requested) == IF requested THEN "verify" ELSE "close"

\* the signature loop ends: the file is closed, "saved signature" is printed
SigContentDone ==
    /\ rx.pc = "sigContent" /\ rx.remaining <= 0
    /\ rx' = [rx EXCEPT !.savedSig = TRUE, !.pc = AfterSig(verifyOpt)]
    /\ UNCHANGED <<backlog, conn, fs, sfs, snd, nsend, npeer, verifyOpt>>

\* (variant: a file that fails verification is deleted)
VerifiedDeleting(r, f, cert) ==
    LET res == VerifySignature(f, r.file_path, cert, r.sig_path)
        r1 == [r EXCEPT !.vres = res, !.vcert = cert]
    IN  [rx |-> IF res = "raise" THEN Raised(r1, "verify") ELSE [r1 EXCEPT !.pc = "close"],
         fs |-> IF res = "fail" THEN [q \in DOMAIN f \ {r.file_path} |-> f[q]] ELSE f]

\* what the call of base.verify_signature leaves: the result is logged, or the
\* exception reaches except Exception; the files are not touched
Verified(r, f, cert) ==
    LET res == VerifySignature(f, r.file_path, cert, r.sig_path)
        r1 == [r EXCEPT !.vres = res, !.vcert = cert]
    IN  [rx |-> IF res = "raise" THEN Raised(r1, "verify") ELSE [r1 EXCEPT !.pc = "close"],
         fs |-> f]

\* ok = base.verify_signature(file_path, base.CERT_FILE, sig_path); cert is the
\* state of CERT_FILE when openssl reads it
Verify ==
    /\ rx.pc = "verify"
    /\ \E cert \in CertStates :
          /\ rx' = Verified(rx, fs, cert).rx
          /\ fs' = Verified(rx, fs, cert).fs
    /\ UNCHANGED <<backlog, conn, sfs, snd, nsend, npeer, verifyOpt>>

\* finally: client_sock.close(), and the loop goes back to accept
CloseConn ==
    /\ rx.pc = "close"
    /\ conn' = NoConn
    /\ rx' = RxIdle
    /\ UNCHANGED <<backlog, fs, sfs, snd, nsend, npeer, verifyOpt>>

----------------------------------------------------------------------------
(* The peers of the receiver and the transport *)

PeerFlags == {0, 1, 2}

\* file contents a peer sends: 7, 9, 7, ... cut to every length, and reversed
Contents == {Pattern(n) : n \in 0..MaxSize} \cup {Reverse(Pattern(n)) : n \in 0..MaxSize}

\* names a peer declares for the main frame: the sender's file name, "<it>/b",
\* "/<it>", "" and one byte that is not UTF-8
PeerNames ==
    {EncodeUtf8(NameE), EncodeUtf8(NameE) \o <<47, 98>>, <<47>> \o EncodeUtf8(NameE),
     <<>>, <<255>>}

\* names a peer declares for the signature frame: "<it>.sig", the main name, "x/s"
PeerSigNames == {EncodeUtf8(SigPathOf(NameE)), EncodeUtf8(NameE), <<120, 47, 115>>}

\* signature blobs a peer sends: empty, not a signature, or a signature of the
\* main file it sent made with any key
PeerSigContents ==
    {<<>>, <<3>>}
        \cup (IF Kind(fs, rx.file_path) = "file"
              THEN {SignBytes(fs[rx.file_path].data, k) : k \in Keys}
              ELSE {})

\* the values a peer can send for the field the receiver is reading
FieldValues ==
    CASE rx.pc = "flag" -> {PackBE(b, FLAG_LEN) : b \in PeerFlags}
      [] rx.pc = "nameLen" -> {PackBE(Len(n), LEN32) : n \in PeerNames}
      [] rx.pc = "name" -> {n \in PeerNames : Len(n) = rx.name_len}
      [] rx.pc = "size" -> {PackBE(n, LEN64) : n \in 0..MaxSize}
      [] rx.pc = "content" -> {c \in Contents : Len(c) = rx.size}
      [] rx.pc = "sigNameLen" -> {PackBE(Len(n), LEN32) : n \in PeerSigNames}
      [] rx.pc = "sigName" -> {n \in PeerSigNames : Len(n) = rx.sig_name_len}
      [] rx.pc = "sigSize" -> {PackBE(Len(c), LEN64) : c \in PeerSigContents}
      [] rx.pc = "sigContent" -> {c \in PeerSigContents : Len(c) = rx.sig_size}
      [] OTHER -> {}

\* the bytes of the current field the receiver has taken from the stream
FieldRead ==
    CASE rx.pc \in HeaderPhases -> rx.data
      [] rx.pc = "content" -> fs[rx.file_path].data
      [] rx.pc = "sigContent" -> fs[rx.sig_path].data
      [] OTHER -> <<>>

\* the bytes a peer can send next: those that continue a value of the field
NextBytes ==
    {v[Len(FieldRead) + 1] :
        v \in {w \in FieldValues : Len(w) > Len(FieldRead) /\ Take(w, Len(FieldRead)) = FieldRead}}

Reading == rx.pc \in HeaderPhases \cup ContentPhases

\* a peer connects; hs says whether its TLS handshake will succeed
PeerConnect(hs) ==
    /\ CanConnect /\ npeer < MaxPeers
    /\ backlog' = Append(backlog, PeerConn(hs))
    /\ npeer' = npeer + 1
    /\ UNCHANGED <<conn, rx, fs, sfs, snd, nsend, verifyOpt>>

\* the peer writes the next byte of the field the receiver is reading
PeerSend ==
    /\ conn.kind = "peer" /\ ~conn.eof /\ ~conn.broken /\ conn.stream = <<>>
    /\ \E b \in NextBytes : conn' = [conn EXCEPT !.stream = <<b>>]
    /\ UNCHANGED <<backlog, rx, fs, sfs, snd, nsend, npeer, verifyOpt>>

\* the peer closes its side of the connection
PeerClose ==
    /\ conn.kind = "peer" /\ ~conn.eof /\ ~conn.broken /\ conn.stream = <<>>
    /\ Reading
    /\ conn' = [conn EXCEPT !.eof = TRUE]
    /\ UNCHANGED <<backlog, rx, fs, sfs, snd, nsend, npeer, verifyOpt>>

----------------------------------------------------------------------------
(* The system *)

\* receive_files has created out_dir and listens; nothing was sent yet
Init ==
    /\ backlog = <<>>
    /\ conn = NoConn
    /\ rx = RxIdle
    /\ fs = (OutDir :> DirNode)
    /\ sfs = SrcInit
    /\ snd = "none"
    /\ nsend = 0
    /\ npeer = 0
    /\ verifyOpt \in BOOLEAN

Sender ==
    \E path \in SrcPaths, sign \in BOOLEAN, hs \in BOOLEAN :
        \E key \in (IF sign THEN {SENDER_KEY, NO_KEY} ELSE {NO_KEY}) :
            SendFile(path, hs, sign, key, hs)

Receiver ==
    \/ Accept \/ Handshake \/ RecvAllStep
    \/ GotFlag \/ GotNameLen \/ GotName \/ GotSize
    \/ ContentStep \/ ContentDone
    \/ GotSigNameLen \/ GotSigName \/ GotSigSize
    \/ SigContentStep \/ SigContentDone
    \/ Verify \/ CloseConn

Peers == (\E hs \in BOOLEAN : PeerConnect(hs)) \/ PeerSend \/ PeerClose

Next == Sender \/ Receiver \/ Peers

Spec == Init /\ [][Next]_vars

\* a step of the receiver other than a recv that raises: the sequential loop
\* always takes its next step when it can
ReceiverSteady == Receiver /\ (conn.broken \/ ~conn'.broken)

\* a connected peer writes its next byte or closes
PeerProgress == PeerSend \/ PeerClose

\* the receiver keeps running, and every connected peer eventually delivers
\* what the receiver waits for or closes
FairNext == Next /\ (nsend' + npeer' <= MaxFairConns)

FairSpec ==
    Init /\ [][FairNext]_vars /\ WF_vars(ReceiverSteady) /\ WF_vars(PeerProgress)

----------------------------------------------------------------------------
(* Properties *)

LoopPhases == {"accept", "handshake", "verify", "close"} \cup HeaderPhases \cup ContentPhases

\* the path outDir/<name> of the file a send_file connection carries
DestOf(c) == Append(OutDir, c.name)

\* a connection of send_file(sign=False) was processed to its end without a
\* transport failure
UnsignedProcessed ==
    rx.pc = "close" /\ conn.kind = "sender" /\ ~conn.sign /\ conn.hs /\ ~conn.broken

\* C1 as claimed: after an unsigned send_file connection is processed without a
\* transport failure, outDir/<name> holds exactly the sent bytes.
C1_RoundTripUnsigned ==
    UnsignedProcessed =>
        (Kind(fs, DestOf(conn)) = "file" /\ fs[DestOf(conn)].data = conn.data)

\* C1 amended: after an unsigned send_file connection is processed without a
\* transport failure and without a file I/O error (outDir/<name> could be opened
\* for writing), outDir/<name> holds exactly the sent bytes in order, however the
\* stream was cut into chunks, and the connection ended without error.
C1_RoundTripUnsignedOpened ==
    (UnsignedProcessed /\ rx.err # "io") =>
        /\ rx.err = "none"
        /\ Kind(fs, DestOf(conn)) = "file"
        /\ fs[DestOf(conn)].data = conn.data

C1_Witness ==
    /\ UnsignedProcessed /\ rx.err = "none"
    /\ Len(conn.data) = MaxSize
    /\ fs[DestOf(conn)].data = conn.data

\* C2 as claimed: a connection whose signFlag byte is neither 0 nor 1 ends in
\* error right after the flag; it is never processed as an envelope.
C2_MalformedFlagRejected ==
    (rx.sign_flag \notin {-1, 0, 1}) => (rx.pc = "close" /\ rx.err # "none")

\* C3 as claimed: a connection that declared a size S > 0 and closed with fewer
\* than S content bytes delivered ends with the transfer-interrupted error and
\* without the file reported saved.
C3_TruncatedAlways ==
    (/\ rx.pc = "close" /\ rx.size > 0 /\ ~rx.savedMain
     /\ conn.eof /\ ~conn.broken /\ conn.stream = <<>>)
        => rx.err = "interrupted"

\* C3 amended: once the destination file was opened, a stream that closes in
\* the main content phase with content bytes still missing makes the receiver
\* raise the transfer-interrupted error without reporting the file saved;
\* "saved" is reported only from the content phase with remaining = 0 and
\* exactly size bytes in the file.
C3_TruncatedTransfer ==
    [][ /\ (rx.pc = "content" /\ rx.remaining > 0 /\ conn.stream = <<>> /\ conn.eof
                /\ rx' # rx)
            => (rx'.pc = "close" /\ rx'.err = "interrupted" /\ ~rx'.savedMain)
        /\ (~rx.savedMain /\ rx'.savedMain)
            => (rx.pc = "content" /\ rx.remaining = 0 /\ rx.err = "none"
                /\ Len(fs[rx.file_path].data) = rx.size) ]_vars

C3_Witness ==
    /\ rx.pc = "close" /\ rx.err = "interrupted" /\ ~rx.savedMain
    /\ rx.size = MaxSize /\ rx.remaining > 0 /\ rx.remaining < rx.size
    /\ Len(fs[rx.file_path].data) = rx.size - rx.remaining

\* C4: the receiver is always at a position of the accept loop; every failure
\* of a connection puts it at the close step, which is always possible and
\* leads back to accept with the connection closed.
C4_Containment ==
    /\ [](/\ rx.pc \in LoopPhases
          /\ (rx.err # "none" => rx.pc = "close")
          /\ (rx.pc = "close" => ENABLED CloseConn))
    /\ [][ (rx.pc = "close" /\ rx' # rx) => (rx'.pc = "accept" /\ conn' = NoConn) ]_vars

C4_Witness == rx.pc = "close" /\ rx.err = "verify" /\ nsend + npeer = MaxSends + MaxPeers

\* C5: a send_file call whose signing failed opens no connection and writes
\* nothing; every connection a sign=True call opens was signed with a usable
\* key and starts with signFlag 1.
C5_FailClosedSigning ==
    [][ (nsend' # nsend) =>
          /\ (snd' = "SigningFailed" => (backlog' = backlog /\ conn' = conn))
          /\ (backlog' # backlog =>
                LET c == backlog'[Len(backlog')]
                IN  c.sign => (c.key # NO_KEY /\ (c.hs => c.stream[1] = 1))) ]_vars

C5_Witness == snd = "SigningFailed" /\ nsend > 0 /\ backlog = <<>> /\ conn = NoConn /\ npeer = 0

\* C6: a send_file call on a path that is not a regular file fails with
\* FileNotFound, creates no signature file and opens no connection; every
\* connection send_file opens carries a regular file.
C6_MissingSource ==
    [][ (nsend' # nsend) =>
          /\ (snd' = "FileNotFound" => (backlog' = backlog /\ conn' = conn /\ sfs' = sfs))
          /\ (backlog' # backlog => Kind(sfs, backlog'[Len(backlog')].name) = "file")
          /\ (sfs' # sfs => \E n \in DOMAIN sfs :
                                /\ sfs[n].k = "file"
                                /\ DOMAIN sfs' \subseteq DOMAIN sfs \cup {n \o SIG_SUFFIX}) ]_vars

C6_Witness == snd = "FileNotFound" /\ nsend > 0 /\ backlog = <<>> /\ conn = NoConn /\ sfs = SrcInit

\* a frame read from the front of a byte sequence
ParseFrame(s) ==
    LET nl == UnpackBE(SubSeq(s, 1, 4))
        sz == UnpackBE(SubSeq(s, 5 + nl, 12 + nl))
    IN  [ok |-> Len(s) >= 12 + nl + sz,
         name |-> SubSeq(s, 5, 4 + nl),
         content |-> SubSeq(s, 13 + nl, 12 + nl + sz),
         rest |-> Drop(s, 12 + nl + sz)]

\* C7: every envelope send_file wrote starts with signFlag 0 or 1, 1 exactly
\* when sign was requested and the signature file exists; then come name
\* length, name, size and content of the main file, and after them the
\* signature frame if and only if signFlag is 1.
C7_EnvelopeShape ==
    \A i \in DOMAIN backlog :
        LET c == backlog[i]
            main == ParseFrame(Tail(c.stream))
            sig == ParseFrame(main.rest)
        IN  (c.kind = "sender" /\ c.hs) =>
                /\ c.stream[1] \in {0, 1}
                /\ (c.stream[1] = 1) <=> (c.sign /\ Kind(sfs, c.name \o SIG_SUFFIX) = "file")
                /\ main.ok /\ main.name = EncodeUtf8(c.name) /\ main.content = c.data
                /\ IF c.stream[1] = 1
                   THEN /\ sig.ok /\ sig.rest = <<>>
                        /\ sig.name = EncodeUtf8(c.name \o SIG_SUFFIX)
                        /\ sig.content = SignBytes(c.data, c.key)
                   ELSE main.rest = <<>>

C7_Witness ==
    /\ backlog # <<>>
    /\ backlog[1].kind = "sender" /\ backlog[1].hs /\ backlog[1].sign
    /\ Len(backlog[1].data) = MaxSize

\* C8 as claimed: verify_signature raises only when an input file is missing;
\* for a certificate that cannot be parsed it returns false.
C8_VerifyNeverRaises == (rx.vres = "raise") => (rx.vcert = CERT_MISSING)

\* C9: a verification that reports failure changes no file, ends the
\* connection without error, and the receiver then goes back to accept with
\* the files still unchanged.
C9_VerifyObservational ==
    [][ /\ (rx.pc = "verify" /\ rx'.vres = "fail")
            => (fs' = fs /\ rx'.pc = "close" /\ rx'.err = "none")
        /\ (rx.pc = "close" /\ rx.vres = "fail" /\ rx' # rx)
            => (fs' = fs /\ rx'.pc = "accept" /\ conn' = NoConn) ]_vars

C9_Witness ==
    /\ rx.pc = "close" /\ rx.vres = "fail" /\ rx.err = "none"
    /\ rx.sig_path # rx.file_path
    /\ Kind(fs, rx.file_path) = "file" /\ Len(fs[rx.file_path].data) = MaxSize
    /\ Kind(fs, rx.sig_path) = "file" /\ fs[rx.sig_path].data # <<>>

\* C10: verify_signature is called exactly when verification was requested
\* and the signature frame was received in full, after both files were
\* written and closed; never with signFlag 0, never after a frame was cut
\* short, never when verification was not requested.
C10_VerifyTrigger ==
    /\ (rx.pc = "verify" \/ rx.vres # "none") =>
          /\ verifyOpt /\ rx.sign_flag # 0 /\ rx.savedMain /\ rx.savedSig
          /\ rx.remaining = 0
          /\ Kind(fs, rx.file_path) = "file"
          /\ Kind(fs, rx.sig_path) = "file" /\ Len(fs[rx.sig_path].data) = rx.sig_size
    /\ (rx.pc = "close" /\ rx.savedSig /\ verifyOpt) => rx.vres # "none"
    /\ (rx.pc = "close" /\ rx.err = "none" /\ rx.sign_flag # 0 /\ verifyOpt) => rx.vres # "none"

C10_Witness ==
    /\ rx.pc = "close" /\ rx.vres = "pass" /\ conn.kind = "sender"
    /\ rx.sig_size > 0 /\ rx.size = MaxSize

\* the path outDir/<name>.sig of the signature file a send_file connection carries
SigDestOf(c) == Append(OutDir, SigPathOf(c.name))

\* a connection of send_file(sign=True) was processed to its end without a
\* transport failure by a receiver that verifies, and the certificate a
\* verification read matches the signing key
SignedProcessed ==
    /\ rx.pc = "close" /\ conn.kind = "sender" /\ conn.sign /\ conn.hs /\ ~conn.broken
    /\ verifyOpt
    /\ (rx.vres # "none" => rx.vcert = conn.key)

\* C11 as claimed: after a signed send_file connection is processed by a
\* verifying receiver whose certificate matches, without a transport failure,
\* outDir holds the main file and the signature file as sent and verification
\* passed.
C11_SignedRoundTrip ==
    SignedProcessed =>
        /\ Kind(fs, DestOf(conn)) = "file" /\ fs[DestOf(conn)].data = conn.data
        /\ Kind(fs, SigDestOf(conn)) = "file"
        /\ fs[SigDestOf(conn)].data = SignBytes(conn.data, conn.key)
        /\ rx.vres = "pass"

\* C11 amended: the same, for a connection processed without a file I/O error
\* on the receiver (outDir/<name> and outDir/<name>.sig could be opened for
\* writing); the connection then also ends without error.
C11_SignedRoundTripOpened ==
    (SignedProcessed /\ rx.err # "io") =>
        /\ rx.err = "none"
        /\ Kind(fs, DestOf(conn)) = "file" /\ fs[DestOf(conn)].data = conn.data
        /\ Kind(fs, SigDestOf(conn)) = "file"
        /\ fs[SigDestOf(conn)].data = SignBytes(conn.data, conn.key)
        /\ rx.vres = "pass"

C11_Witness ==
    /\ SignedProcessed /\ rx.vres = "pass" /\ rx.err = "none"
    /\ Len(conn.data) = MaxSize
    /\ fs[SigDestOf(conn)].data = SignBytes(conn.data, SENDER_KEY)

\* a path at or below out_dir
UnderOutDir(path) == Len(path) >= Len(OutDir) /\ Take(path, Len(OutDir)) = OutDir

\* C12 as claimed: every file or directory the receiver host holds lies at or
\* below out_dir, and the paths the receiver opens are out_dir followed by the
\* components of the declared name.
C12_FilesUnderOutDir ==
    /\ \A path \in DOMAIN fs : UnderOutDir(path)
    /\ (rx.size >= 0 => rx.file_path = OutDir \o Parts(rx.filename))
    /\ (rx.sig_size >= 0 => rx.sig_path = OutDir \o Parts(rx.sig_filename))

\* C13: the receiver holds a connection exactly when it is not at accept; a
\* connection leaves the listen queue only when the receiver is at accept with
\* no connection open, oldest first; the connection being processed is only
\* ever replaced by none, at the close step.
C13_SerialProcessing ==
    /\ []((rx.pc = "accept") <=> (conn = NoConn))
    /\ [][ /\ (Len(backlog') < Len(backlog))
                 => (/\ rx.pc = "accept" /\ conn = NoConn
                     /\ conn' = Head(backlog) /\ backlog' = Tail(backlog)
                     /\ rx'.pc = "handshake")
           /\ (conn # NoConn /\ conn'.kind # conn.kind)
                 => (rx.pc = "close" /\ conn' = NoConn /\ backlog' = backlog) ]_vars

\* a second client is queued while the first one is in its content phase
C13_Witness ==
    /\ rx.pc = "content" /\ conn.kind = "peer" /\ rx.remaining > 0
    /\ backlog # <<>> /\ backlog[1].kind = "sender"

\* the phase of the per-connection state machine a receiver position belongs to
PhaseOf(pc) ==
    CASE pc = "accept" -> "Idle"
      [] pc = "handshake" -> "Handshake"
      [] pc = "flag" -> "AwaitFlag"
      [] pc \in {"nameLen", "name"} -> "ReadMainName"
      [] pc = "size" -> "ReadMainSize"
      [] pc = "content" -> "ReadMainContent"
      [] pc \in {"sigNameLen", "sigName"} -> "ReadSigName"
      [] pc = "sigSize" -> "ReadSigSize"
      [] pc = "sigContent" -> "ReadSigContent"
      [] pc = "verify" -> "Verify"
      [] OTHER -> "Closed"

\* the successor of each phase on the path of a connection that carries a signature
PhaseOrder ==
    {<<"Idle", "Handshake">>, <<"Handshake", "AwaitFlag">>,
     <<"AwaitFlag", "ReadMainName">>, <<"ReadMainName", "ReadMainSize">>,
     <<"ReadMainSize", "ReadMainContent">>, <<"ReadMainContent", "ReadSigName">>,
     <<"ReadSigName", "ReadSigSize">>, <<"ReadSigSize", "ReadSigContent">>,
     <<"ReadSigContent", "Verify">>, <<"Verify", "Closed">>, <<"Closed", "Idle">>}

\* one step of the receiver follows the state machine; skipVerify says whether
\* ReadSigContent may go to Closed without error when verification is off
PhaseStepOk(skipVerify) ==
    LET p == PhaseOf(rx.pc)
        q == PhaseOf(rx'.pc)
    IN  /\ \/ p = q /\ (rx'.pc = rx.pc \/ <<rx.pc, rx'.pc>> \in
                                 {<<"nameLen", "name">>, <<"sigNameLen", "sigName">>})
           \/ <<p, q>> \in PhaseOrder
                 /\ (q = "ReadSigName" => rx.sign_flag # 0)
                 /\ (q \notin {"Closed", "Idle"} => rx'.err = "none")
           \/ p = "ReadMainContent" /\ q = "Closed" /\ rx'.err = "none"
                 /\ rx.sign_flag = 0 /\ rx.remaining = 0
           \/ p \notin {"Idle", "Closed"} /\ q = "Closed" /\ rx'.err # "none"
           \/ skipVerify /\ p = "ReadSigContent" /\ q = "Closed" /\ rx'.err = "none"
                 /\ ~verifyOpt /\ rx.remaining = 0
        /\ (conn # NoConn /\ conn' = NoConn) => (p = "Closed" /\ q = "Idle")

\* C14 as claimed: every step of the receiver keeps its phase, moves to the
\* next phase of the order AwaitFlag .. ReadMainContent, ReadSigName ..
\* Verify, Closed (the signature phases only with a signature present), or
\* goes to Closed on a failure; no phase is skipped.
C14_StateMachine == [][PhaseStepOk(FALSE)]_vars

\* C14 amended: the same, except that the Verify phase is passed over (from
\* ReadSigContent to Closed, without error) when verification was not
\* requested.
C14_StateMachineVerifyOptional == [][PhaseStepOk(TRUE)]_vars

\* a connection went through every phase up to Verify and is Closed
C14_Witness ==
    /\ rx.pc = "close" /\ rx.err = "none" /\ rx.vres # "none"
    /\ rx.sign_flag = 1 /\ rx.savedMain /\ rx.savedSig
    /\ rx.size = MaxSize /\ rx.sig_size > 0

\* the file a content phase writes, and the size its frame declared
ContentPath(r) == IF r.pc = "content" THEN r.file_path ELSE r.sig_path

ContentSize(r) == IF r.pc = "content" THEN r.size ELSE r.sig_size

\* C15: in both content phases the bytes written plus remaining equal the
\* declared size and remaining is never negative; each pass takes between one
\* and min(65536, remaining) bytes from the front of the stream and appends
\* exactly them to the file; a content phase ends only with remaining = 0, the
\* declared number of bytes in the file, and without touching the stream.
C15_ExactConsumption ==
    /\ [](rx.pc \in ContentPhases =>
            /\ rx.remaining >= 0
            /\ Len(fs[ContentPath(rx)].data) + rx.remaining = ContentSize(rx))
    /\ [][ /\ (rx.pc \in ContentPhases /\ rx'.pc = rx.pc /\ rx' # rx) =>
                 LET n == rx.remaining - rx'.remaining
                     path == ContentPath(rx)
                 IN  /\ n >= 1 /\ n <= Min(CHUNK, rx.remaining)
                     /\ fs'[path].data = fs[path].data \o Take(conn.stream, n)
                     /\ conn'.stream = Drop(conn.stream, n)
           /\ (rx.pc \in ContentPhases /\ rx'.pc # rx.pc /\ rx'.err = "none") =>
                 /\ rx.remaining = 0
                 /\ Len(fs[ContentPath(rx)].data) = ContentSize(rx)
                 /\ conn' = conn /\ fs' = fs ]_vars

\* the main content of a signed send_file connection is half read, with the
\* rest of it and the signature frame still in the stream
C15_Witness ==
    /\ rx.pc = "content" /\ rx.size = MaxSize /\ rx.remaining = 1
    /\ conn.kind = "sender" /\ conn.sign /\ Len(conn.stream) > rx.remaining

\* C16: _recv_all never holds more than length bytes; each pass moves between
\* one and length - len(data) bytes from the front of the stream to the end of
\* data; it returns only with exactly length bytes and without touching the
\* stream; it raises the connection error only when the stream is closed and
\* empty with bytes still missing; with length 0 it returns at once, the
\* connection untouched, even when the peer has closed.
C16_RecvAll ==
    /\ [](rx.pc \in HeaderPhases => Len(rx.data) <= Want(rx))
    /\ [][ /\ (rx.pc \in HeaderPhases /\ rx'.pc = rx.pc /\ rx' # rx) =>
                 LET n == Len(rx'.data) - Len(rx.data)
                 IN  /\ n >= 1 /\ n <= Want(rx) - Len(rx.data)
                     /\ rx'.data = rx.data \o Take(conn.stream, n)
                     /\ conn'.stream = Drop(conn.stream, n)
           /\ (rx.pc \in HeaderPhases /\ rx'.pc # rx.pc /\ rx'.err \notin {"interrupted", "transport"}) =>
                 (Len(rx.data) = Want(rx) /\ conn' = conn)
           /\ (rx.pc \in HeaderPhases /\ rx'.err = "interrupted") =>
                 /\ Len(rx.data) < Want(rx) /\ conn.stream = <<>> /\ conn.eof
                 /\ rx'.pc = "close" /\ conn' = conn
           /\ (rx.pc \in HeaderPhases /\ Want(rx) = 0 /\ rx' # rx) =>
                 (conn' = conn /\ rx'.pc # rx.pc /\ rx'.err \notin {"interrupted", "transport"}) ]_vars

\* _recv_all(tls, 8) holds three bytes after more than one recv, with more than
\* the five missing ones in the stream
C16_Witness ==
    /\ rx.pc = "size" /\ Len(rx.data) = 3 /\ conn.kind = "sender"
    /\ Len(conn.stream) > Want(rx) - Len(rx.data)

\* _recv_all(tls, 0) is about to return b'' on a connection the peer has closed
C16_WitnessZero ==
    /\ rx.pc = "name" /\ Want(rx) = 0 /\ conn.eof /\ conn.stream = <<>>

\* C17: opening the destination leaves it empty whatever it held; when the
\* stream closes in the main content phase, the destination file stays as it
\* is, holding the k = size - remaining < size bytes written so far; the close
\* step that follows changes no file.
C17_NoRollback ==
    [][ /\ (rx.pc = "size" /\ rx'.pc = "content")
               => fs'[rx'.file_path] = FileNode(<<>>)
        /\ (rx.pc = "content" /\ rx'.err = "interrupted")
               => /\ fs' = fs
                  /\ Kind(fs, rx.file_path) = "file"
                  /\ Len(fs[rx.file_path].data) = rx.size - rx.remaining
                  /\ rx.remaining > 0
                  /\ rx'.file_path = rx.file_path /\ rx'.remaining = rx.remaining
        /\ (rx.pc = "close" /\ rx.err = "interrupted" /\ rx' # rx)
               => (fs' = fs /\ rx' = RxIdle) ]_vars

\* a peer's transfer to the name of a file a signed send_file stored before was
\* cut after one byte of two: the file holds that one byte
C17_Witness ==
    /\ rx.pc = "close" /\ rx.err = "interrupted" /\ conn.kind = "peer"
    /\ rx.file_path = Append(OutDir, NameE) /\ rx.size = MaxSize /\ rx.remaining = 1
    /\ Kind(fs, Append(OutDir, SigPathOf(NameE))) = "file"
    /\ Len(fs[rx.file_path].data) = 1

\* C18 as claimed: after a connection with signFlag 1 was processed to its end
\* without error, the main path holds the size bytes of the main frame and the
\* signature path the sig_size bytes of the signature frame, whatever names
\* were declared.
C18_SignedEnvelopeStored ==
    (rx.pc = "close" /\ rx.err = "none" /\ rx.sign_flag = 1 /\ rx.savedSig) =>
        /\ Kind(fs, rx.file_path) = "file" /\ Len(fs[rx.file_path].data) = rx.size
        /\ Kind(fs, rx.sig_path) = "file" /\ Len(fs[rx.sig_path].data) = rx.sig_size

\* C19: as long as the main size of the connection has not been decoded
\* (handshake, flag, name length, name, size field, and the close step after a
\* failure in one of them), no step changes the receiver's filesystem.
C19_EarlyFailureNoDisk ==
    [][ (rx.size < 0 /\ rx'.size < 0) => fs' = fs ]_vars

\* the stream closed inside the size field after a name with a directory part
\* was read: nothing was created
C19_Witness ==
    /\ rx.pc = "close" /\ rx.err = "interrupted" /\ rx.size < 0
    /\ rx.filename = NameE \o <<SLASH, 98>>
    /\ fs = (OutDir :> DirNode)

\* C20: with the receiver running and every peer eventually sending or
\* closing, every accepted connection reaches the close step and the receiver
\* returns to accept; whenever the receiver holds a connection and can take no
\* step, it is reading from a peer that has neither sent nor closed.
C20_Progress ==
    /\ (rx.pc \notin {"accept", "close"}) ~> (rx.pc = "close")
    /\ (conn # NoConn) ~> (rx.pc = "accept" /\ conn = NoConn)
    /\ []((conn # NoConn /\ ~ENABLED ReceiverSteady) =>
             (/\ Reading /\ conn.kind = "peer"
              /\ conn.stream = <<>> /\ ~conn.eof /\ ~conn.broken))

\* a peer's connection was processed to its end, the file stored, and the
\* receiver is back at accept
C20_Witness ==
    /\ rx.pc = "accept" /\ conn = NoConn /\ backlog = <<>> /\ npeer = 1
    /\ Kind(fs, Append(OutDir, NameE)) = "file"
    /\ Len(fs[Append(OutDir, NameE)].data) = MaxSize

\* C20, the stalled peer: the receiver waits in the main content loop for a
\* peer that has sent half of the content and has not closed
C20_WitnessStalled ==
    /\ rx.pc = "content" /\ rx.size = MaxSize /\ rx.remaining = 1
    /\ conn.kind = "peer" /\ conn.stream = <<>> /\ ~conn.eof
    /\ ~ENABLED ReceiverSteady

====
